---- MODULE Spec2Model ----
(***************************************************************************)
(* Model of the layout core of mermaid_to_visio.py: FlowLayoutEngine       *)
(* (calculate_levels, layout) and HilbertLayoutEngine (hilbert_d2xy,       *)
(* hilbert_rot, layout).                                                   *)
(*                                                                         *)
(* Lengths are in hundredths of an inch, so that the module constants of   *)
(* the source (11.69, 8.27, 0.5, 1.5, 0.75) are integers.  A coordinate is *)
(* an exact fraction <<numerator, denominator>> with a positive            *)
(* denominator: the source computes it in binary floating point, the model *)
(* in exact arithmetic.                                                    *)
(*                                                                         *)
(* Node identifiers are only ever hashed and compared for equality, so the *)
(* declared nodes are taken to be 1..k in insertion order; an identifier   *)
(* above k that occurs in an edge is one the nodes mapping does not hold.  *)
(***************************************************************************)
EXTENDS Integers, Sequences, FiniteSets, TLC

VARIABLES layout_engine, nodes, edges, groups, pc,
          incoming, outgoing, roots, queue, visited, levels, positions,
          hn, hi, table,
          text, line_no, in_front_matter, current_group, labels, call,
          document, shapes

\* MermaidParser and VisioGenerator: the text and the position in it, the
\* labels of the nodes mapping (nodes holds its keys in insertion order), the
\* arguments of the latest _register_node call, the Visio document and shapes
parserVars == <<text, line_no, in_front_matter, current_group, labels, call,
                document, shapes>>

vars == <<layout_engine, nodes, edges, groups, pc,
          incoming, outgoing, roots, queue, visited, levels, positions,
          hn, hi, table, parserVars>>

(* ---------------------------- bounds ----------------------------------- *)
\* longest edge list
MaxEdges == 3
\* subgraph names; group key 0 stands for the "" of groups.get(nid, "")
NumGroups == 1
\* largest node count given to the Hilbert layout
MaxCount == 17
\* largest grid side 2^MaxOrder given to hilbert_d2xy alone
MaxOrder == 4

(* ------------------------ program constants ---------------------------- *)
A4_WIDTH == 1169
A4_HEIGHT == 827
MARGIN == 50
SHAPE_WIDTH == 150
SHAPE_HEIGHT == 75

(* ---------------------------- helpers ---------------------------------- *)
\* the identifiers an edge may name: three, as the A, B, C of the examples
Ids == {1, 2, 3}
Range(s) == {s[i] : i \in DOMAIN s}
Iota(k) == [i \in 1..k |-> i]
SetMax(S) == CHOOSE m \in S : \A e \in S : e <= m

RECURSIVE Pow(_, _)
Pow(b, e) == IF e = 0 THEN 1 ELSE b * Pow(b, e - 1)

\* all sequences over S of length at most k
SeqsUpTo(S, k) == UNION {[1..m -> S] : m \in 0..k}

\* exact fractions
RLe(a, b) == a[1] * b[2] <= b[1] * a[2]
RLt(a, b) == a[1] * b[2] < b[1] * a[2]
REq(a, b) == a[1] * b[2] = b[1] * a[2]
RSub(a, b) == <<a[1] * b[2] - b[1] * a[2], a[2] * b[2]>>

\* a dict as the sequence of its <<key, value>> items in insertion order
DictKeys(d) == {d[i][1] : i \in DOMAIN d}
DictKeySeq(d) == [i \in DOMAIN d |-> d[i][1]]
DictGet(d, k) == d[CHOOSE i \in DOMAIN d : d[i][1] = k][2]
DictSet(d, k, v) ==
    IF k \in DictKeys(d)
    THEN [i \in DOMAIN d |-> IF d[i][1] = k THEN <<k, v>> ELSE d[i]]
    ELSE Append(d, <<k, v>>)

(* -------------------- FlowLayoutEngine.calculate_levels ---------------- *)
\* variant of CountIncoming: incoming[from_id] += 1
CountIncomingSources(es) ==
    [n \in Ids |-> Cardinality({i \in DOMAIN es : es[i][1] = n})]

\* incoming[to_id] += 1 over the edge list
CountIncoming(es) ==
    [n \in Ids |-> Cardinality({i \in DOMAIN es : es[i][2] = n})]

\* outgoing[from_id].append(to_id) over the edge list
RECURSIVE TargetsOf(_, _)
TargetsOf(es, n) ==
    IF es = <<>> THEN <<>>
    ELSE IF Head(es)[1] = n
         THEN <<Head(es)[2]>> \o TargetsOf(Tail(es), n)
         ELSE TargetsOf(Tail(es), n)

BuildOutgoing(es) == [n \in Ids |-> TargetsOf(es, n)]

\* roots: the declared nodes with no incoming edge, else every declared node
ZeroInDegree(ns, inc) == SelectSeq(ns, LAMBDA n : inc[n] = 0)

\* variant of FindRoots: no fallback when no node has in-degree zero
FindRootsNoFallback(ns, inc) == ZeroInDegree(ns, inc)

FindRoots(ns, inc) ==
    IF ZeroInDegree(ns, inc) = <<>> THEN ns ELSE ZeroInDegree(ns, inc)

\* deque([(root, 0) for root in roots])
SeedQueue(rs) == [i \in DOMAIN rs |-> <<rs[i], 0>>]

\* the (child, level + 1) items appended for the children not yet visited
RECURSIVE ChildItems(_, _, _)
ChildItems(children, vis, level) ==
    IF children = <<>> THEN <<>>
    ELSE IF Head(children) \notin vis
         THEN <<<<Head(children), level + 1>>>>
              \o ChildItems(Tail(children), vis, level)
         ELSE ChildItems(Tail(children), vis, level)

\* variant of Enqueue: appendleft, which turns the traversal depth-first
EnqueueFront(q, items) == items \o q

\* queue.append(item) for each of the items, in order
Enqueue(q, items) == q \o items

\* variant of DefaultLevels: the loop over the unvisited nodes is left out
DefaultLevelsSkip(ns, lv) == lv

\* variant of DefaultLevels: an unvisited node gets level 1
RECURSIVE DefaultLevelsOne(_, _)
DefaultLevelsOne(ns, lv) ==
    IF ns = <<>> THEN lv
    ELSE DefaultLevelsOne(Tail(ns),
                          IF Head(ns) \in DictKeys(lv) THEN lv
                          ELSE Append(lv, <<Head(ns), 1>>))

\* variant of DefaultLevels: the loop runs over every identifier of an edge too
RECURSIVE DefaultLevelsAll(_, _, _)
DefaultLevelsAll(ns, lv, rest) ==
    IF ns = <<>>
    THEN IF rest = {} THEN lv
         ELSE DefaultLevelsAll(<<SetMax(rest)>>, lv, rest \ {SetMax(rest)})
    ELSE DefaultLevelsAll(Tail(ns),
                          IF Head(ns) \in DictKeys(lv) THEN lv
                          ELSE Append(lv, <<Head(ns), 0>>), rest)

DefaultLevelsEdgeIds(ns, lv) == DefaultLevelsAll(ns, lv, Ids \ Range(ns))

\* for node_id in self.nodes: if node_id not in levels: levels[node_id] = 0
RECURSIVE DefaultLevels(_, _)
DefaultLevels(ns, lv) ==
    IF ns = <<>> THEN lv
    ELSE DefaultLevels(Tail(ns),
                       IF Head(ns) \in DictKeys(lv) THEN lv
                       ELSE DictSet(lv, Head(ns), 0))

\* the while loop of calculate_levels, run to the end
RECURSIVE BfsLoop(_, _, _, _)
BfsLoop(q, vis, lv, out) ==
    IF q = <<>> THEN lv
    ELSE LET node_id == Head(q)[1]
             level == Head(q)[2]
         IN  IF node_id \in vis
             THEN BfsLoop(Tail(q), vis, lv, out)
             ELSE BfsLoop(Enqueue(Tail(q),
                              ChildItems(out[node_id], vis \cup {node_id}, level)),
                          vis \cup {node_id},
                          DictSet(lv, node_id, level),
                          out)

\* calculate_levels as a function of the nodes and the edge list
calculate_levels(ns, es) ==
    DefaultLevels(ns, BfsLoop(SeedQueue(FindRoots(ns, CountIncoming(es))),
                              {}, <<>>, BuildOutgoing(es)))

(* ----------------------- FlowLayoutEngine.layout ----------------------- *)
\* level_groups[level]: the keys of levels with that level, in dict order
LevelGroup(lv, level) ==
    SelectSeq(DictKeySeq(lv), LAMBDA n : DictGet(lv, n) = level)

\* max(levels.values()) if levels else 0
MaxLevel(lv) == IF lv = <<>> THEN 0 ELSE SetMax({lv[i][2] : i \in DOMAIN lv})

\* self.groups.get(nid, "")
GroupKey(g, nid) == IF nid \in DOMAIN g THEN g[nid] ELSE 0

\* variant of InsertStable: an unstable sort, equal keys end up reversed
RECURSIVE InsertBeforeEqual(_, _, _)
InsertBeforeEqual(sorted, n, g) ==
    IF sorted = <<>> THEN <<n>>
    ELSE IF GroupKey(g, Head(sorted)) < GroupKey(g, n)
         THEN <<Head(sorted)>> \o InsertBeforeEqual(Tail(sorted), n, g)
         ELSE <<n>> \o sorted

\* list.sort(key=...) is stable: equal keys keep their order
RECURSIVE InsertStable(_, _, _)
InsertStable(sorted, n, g) ==
    IF sorted = <<>> THEN <<n>>
    ELSE IF GroupKey(g, Head(sorted)) <= GroupKey(g, n)
         THEN <<Head(sorted)>> \o InsertStable(Tail(sorted), n, g)
         ELSE <<n>> \o sorted

RECURSIVE SortByGroup(_, _)
SortByGroup(s, g) ==
    IF s = <<>> THEN <<>>
    ELSE InsertStable(SortByGroup(SubSeq(s, 1, Len(s) - 1), g), s[Len(s)], g)

\* variant of YPos: level 0 at y = MARGIN, growing with the level
YPosUp(level, max_level) ==
    IF max_level = 0
    THEN <<A4_HEIGHT, 2>>
    ELSE <<MARGIN * max_level + level * (A4_HEIGHT - 2 * MARGIN), max_level>>

\* variant of YPos: the margin is not subtracted
YPosNoMargin(level, max_level) ==
    IF max_level = 0
    THEN <<A4_HEIGHT, 2>>
    ELSE <<A4_HEIGHT * max_level - level * (A4_HEIGHT - 2 * MARGIN), max_level>>

\* variant of YPos: a single rank is placed as level 0 of a deeper graph
YPosSingleRankAtTop(level, max_level) ==
    IF max_level = 0
    THEN <<A4_HEIGHT - MARGIN, 1>>
    ELSE <<(A4_HEIGHT - MARGIN) * max_level - level * (A4_HEIGHT - 2 * MARGIN),
           max_level>>

\* y_pos of a level
YPos(level, max_level) ==
    IF max_level = 0
    THEN <<A4_HEIGHT, 2>>
    ELSE <<(A4_HEIGHT - MARGIN) * max_level - level * (A4_HEIGHT - 2 * MARGIN),
           max_level>>

\* variant of XPos: x_spacing = usable_width / num_nodes
XPosOffByOne(i, num_nodes) ==
    IF num_nodes = 1
    THEN <<A4_WIDTH, 2>>
    ELSE <<MARGIN * num_nodes + i * (A4_WIDTH - 2 * MARGIN), num_nodes>>

\* x_positions[i - 1] of a level holding num_nodes nodes, i in 1..num_nodes
XPos(i, num_nodes) ==
    IF num_nodes = 1
    THEN <<A4_WIDTH, 2>>
    ELSE <<MARGIN * (num_nodes + 1) + i * (A4_WIDTH - 2 * MARGIN),
           num_nodes + 1>>

IndexOf(s, e) == CHOOSE i \in DOMAIN s : s[i] = e

\* the positions written by the loop over range(max_level + 1)
FlowPositions(lv, g) ==
    [n \in {m \in DictKeys(lv) : DictGet(lv, m) \in 0..MaxLevel(lv)} |->
        LET level == DictGet(lv, n)
            nodes_at_level == SortByGroup(LevelGroup(lv, level), g)
        IN  <<XPos(IndexOf(nodes_at_level, n), Len(nodes_at_level)),
              YPos(level, MaxLevel(lv))>>]

(* ------------------------- HilbertLayoutEngine ------------------------- *)
\* variant of hilbert_rot: the reflection is n - x, n - y
hilbert_rot_off(n, x, y, rx, ry) ==
    IF ry = 0
    THEN IF rx = 1 THEN <<n - y, n - x>> ELSE <<y, x>>
    ELSE <<x, y>>

\* variant of hilbert_rot: the swap is made only when there is no reflection
hilbert_rot_noswap(n, x, y, rx, ry) ==
    IF ry = 0
    THEN IF rx = 1 THEN <<n - 1 - x, n - 1 - y>> ELSE <<y, x>>
    ELSE <<x, y>>

hilbert_rot(n, x, y, rx, ry) ==
    IF ry = 0
    THEN IF rx = 1 THEN <<n - 1 - y, n - 1 - x>> ELSE <<y, x>>
    ELSE <<x, y>>

\* the while loop of hilbert_d2xy, from the values its variables hold
RECURSIVE D2xyLoop(_, _, _, _, _)
D2xyLoop(n, s, x, y, d) ==
    IF s < n
    THEN LET rx == (d \div 2) % 2
             ry == ((d % 2) + rx) % 2
             r  == hilbert_rot(s, x, y, rx, ry)
         IN  D2xyLoop(n, s * 2, r[1] + s * rx, r[2] + s * ry, d \div 4)
    ELSE <<x, y>>

hilbert_d2xy(n, d) == D2xyLoop(n, 1, 0, 0, d)

\* 2 ** math.ceil(math.log2(math.sqrt(num_nodes))): ceil(log2(sqrt(c))) is
\* the least k with 2^k >= sqrt(c), that is with 4^k >= c
RECURSIVE CeilLog2Sqrt(_, _)
CeilLog2Sqrt(c, k) == IF Pow(4, k) >= c THEN k ELSE CeilLog2Sqrt(c, k + 1)

\* variant of GridSide: math.floor in place of math.ceil
RECURSIVE FloorLog2Sqrt(_, _)
FloorLog2Sqrt(c, k) == IF Pow(4, k + 1) > c THEN k ELSE FloorLog2Sqrt(c, k + 1)

GridSideFloor(num_nodes) == Pow(2, FloorLog2Sqrt(num_nodes, 0))

GridSide(num_nodes) == Pow(2, CeilLog2Sqrt(num_nodes, 0))

\* x, y of the node in cell (hx, hy) of an n x n grid
HilbertPos(n, cell) ==
    <<<<2 * n * MARGIN + n * SHAPE_WIDTH
           + 2 * cell[1] * (A4_WIDTH - 2 * MARGIN - SHAPE_WIDTH), 2 * n>>,
      <<2 * n * MARGIN + n * SHAPE_HEIGHT
           + 2 * cell[2] * (A4_HEIGHT - 2 * MARGIN - SHAPE_HEIGHT), 2 * n>>>>

(* ------------------------------ states --------------------------------- *)
EdgeLists == SeqsUpTo(Ids \X Ids, MaxEdges)
GroupMaps(k) == UNION {[S -> 1..NumGroups] : S \in SUBSET (1..k)}

\* an engine built directly from a graph: no text, no document
NoParser ==
    /\ text = <<>> /\ line_no = 0 /\ in_front_matter = FALSE
    /\ current_group = 0 /\ labels = <<>> /\ call = <<>>
    /\ document = FALSE /\ shapes = {}

Idle ==
    /\ incoming = <<>> /\ outgoing = <<>> /\ roots = <<>> /\ queue = <<>>
    /\ visited = {} /\ levels = <<>> /\ positions = <<>>
    /\ hn = 0 /\ hi = 0 /\ table = <<>>

\* FlowLayoutEngine(nodes, edges, A4_WIDTH, A4_HEIGHT, groups=parser.groups)
InitFlow ==
    /\ layout_engine = "flow"
    /\ \E k \in 1..Cardinality(Ids) : nodes = Iota(k) /\ groups \in GroupMaps(k)
    /\ edges \in EdgeLists
    /\ pc = "calculate_levels"
    /\ Idle
    /\ NoParser

\* HilbertLayoutEngine(nodes, edges, A4_WIDTH, A4_HEIGHT): edges are not read
InitHilbert ==
    /\ layout_engine = "hilbert"
    /\ \E k \in 1..MaxCount : nodes = Iota(k)
    /\ edges = <<>>
    /\ groups = <<>>
    /\ pc = "hilbert_layout"
    /\ Idle
    /\ NoParser

Init == InitFlow \/ InitHilbert

(* ------------------------------ actions -------------------------------- *)
\* calculate_levels up to the while loop
CalcLevelsStart ==
    /\ pc = "calculate_levels"
    /\ incoming' = CountIncoming(edges)
    /\ outgoing' = BuildOutgoing(edges)
    /\ roots' = FindRoots(nodes, CountIncoming(edges))
    /\ queue' = SeedQueue(FindRoots(nodes, CountIncoming(edges)))
    /\ visited' = {}
    /\ levels' = <<>>
    /\ pc' = "bfs"
    /\ UNCHANGED <<layout_engine, nodes, edges, groups, positions, hn, hi, table>>
    /\ UNCHANGED parserVars

\* variant of BfsSkip: no visited check at the pop, the node is processed again
BfsSkipRevisit ==
    /\ pc = "bfs"
    /\ queue # <<>>
    /\ Head(queue)[1] \in visited
    /\ levels' = DictSet(levels, Head(queue)[1], Head(queue)[2])
    /\ queue' = Enqueue(Tail(queue),
           ChildItems(outgoing[Head(queue)[1]], visited, Head(queue)[2]))
    /\ UNCHANGED <<layout_engine, nodes, edges, groups, pc, incoming, outgoing,
                   roots, visited, positions, hn, hi, table>>
    /\ UNCHANGED parserVars

\* one iteration that pops an already visited node: continue
BfsSkip ==
    /\ pc = "bfs"
    /\ queue # <<>>
    /\ Head(queue)[1] \in visited
    /\ queue' = Tail(queue)
    /\ UNCHANGED <<layout_engine, nodes, edges, groups, pc, incoming, outgoing,
                   roots, visited, levels, positions, hn, hi, table>>
    /\ UNCHANGED parserVars

\* one iteration that pops a new node: level it and enqueue its children
BfsVisit ==
    /\ pc = "bfs"
    /\ queue # <<>>
    /\ Head(queue)[1] \notin visited
    /\ LET node_id == Head(queue)[1]
           level == Head(queue)[2]
       IN  /\ visited' = visited \cup {node_id}
           /\ levels' = DictSet(levels, node_id, level)
           /\ queue' = Enqueue(Tail(queue),
                  ChildItems(outgoing[node_id], visited \cup {node_id}, level))
    /\ UNCHANGED <<layout_engine, nodes, edges, groups, pc, incoming, outgoing,
                   roots, positions, hn, hi, table>>
    /\ UNCHANGED parserVars

\* the queue is empty: level 0 for the nodes never visited, and return
AssignUnvisited ==
    /\ pc = "bfs"
    /\ queue = <<>>
    /\ levels' = DefaultLevels(nodes, levels)
    /\ pc' = "layout"
    /\ UNCHANGED <<layout_engine, nodes, edges, groups, incoming, outgoing,
                   roots, queue, visited, positions, hn, hi, table>>
    /\ UNCHANGED parserVars

\* FlowLayoutEngine.layout after calculate_levels returned
FlowLayout ==
    /\ pc = "layout"
    /\ positions' = FlowPositions(levels, groups)
    /\ pc' = "done"
    /\ UNCHANGED <<layout_engine, nodes, edges, groups, incoming, outgoing,
                   roots, queue, visited, levels, hn, hi, table>>
    /\ UNCHANGED parserVars

\* HilbertLayoutEngine.layout up to the for loop
HilbertStart ==
    /\ pc = "hilbert_layout"
    /\ hn' = GridSide(Len(nodes))
    /\ hi' = 0
    /\ pc' = "place"
    /\ UNCHANGED <<layout_engine, nodes, edges, groups, incoming, outgoing,
                   roots, queue, visited, levels, positions, table>>
    /\ UNCHANGED parserVars

\* one iteration of the for loop over enumerate(self.nodes.keys())
HilbertPlace ==
    /\ pc = "place"
    /\ hi < Len(nodes)
    /\ positions' = (nodes[hi + 1] :> HilbertPos(hn, hilbert_d2xy(hn, hi)))
                        @@ positions
    /\ hi' = hi + 1
    /\ UNCHANGED <<layout_engine, nodes, edges, groups, pc, incoming, outgoing,
                   roots, queue, visited, levels, hn, table>>
    /\ UNCHANGED parserVars

\* the for loop is over: return self.positions
HilbertReturn ==
    /\ pc = "place"
    /\ hi = Len(nodes)
    /\ pc' = "done"
    /\ UNCHANGED <<layout_engine, nodes, edges, groups, incoming, outgoing,
                   roots, queue, visited, levels, positions, hn, hi, table>>
    /\ UNCHANGED parserVars

\* hilbert_d2xy(hn, d) for the next distance d of an hn x hn grid
D2xyCall ==
    /\ pc = "d2xy"
    /\ Len(table) < hn * hn
    /\ table' = Append(table, hilbert_d2xy(hn, Len(table)))
    /\ UNCHANGED <<layout_engine, nodes, edges, groups, pc, incoming, outgoing,
                   roots, queue, visited, levels, positions, hn, hi>>
    /\ UNCHANGED parserVars

Next ==
    \/ CalcLevelsStart
    \/ BfsSkip
    \/ BfsVisit
    \/ AssignUnvisited
    \/ FlowLayout
    \/ HilbertStart
    \/ HilbertPlace
    \/ HilbertReturn

Spec == Init /\ [][Next]_vars

\* both layouts are straight-line code run to completion by one thread
FairSpec == Init /\ [][Next]_vars /\ WF_vars(Next)

\* every layout run returns
LayoutReturns == <>(pc = "done")

\* hilbert_d2xy alone: a power-of-two side, then every distance in turn
GridSides == {Pow(2, k) : k \in 0..MaxOrder}

InitD2xy ==
    /\ layout_engine = "hilbert"
    /\ nodes = <<>> /\ edges = <<>> /\ groups = <<>>
    /\ pc = "d2xy"
    /\ incoming = <<>> /\ outgoing = <<>> /\ roots = <<>> /\ queue = <<>>
    /\ visited = {} /\ levels = <<>> /\ positions = <<>>
    /\ hn \in GridSides /\ hi = 0 /\ table = <<>>
    /\ NoParser

NextD2xy == D2xyCall

SpecD2xy == InitD2xy /\ [][NextD2xy]_vars

(* ---------------------------- MermaidParser ---------------------------- *)
\* A string is the sequence of its characters.  The identifiers 1, 2, 3 are
\* written A, B, C; None is a value that is no string of the alphabet.
IdName(i) == <<"A", "B", "C">>[i]
NoLabel == <<"None">>

\* the bracket contents of a node, as the regular expressions capture them
RawLabels == {<<" ">>, <<"x">>, <<"\"", " ", "y", "\"">>, <<"'", "x", "'", " ">>}

\* str.strip() for the whitespace of the alphabet
RECURSIVE LStrip(_)
LStrip(s) == IF s # <<>> /\ Head(s) = " " THEN LStrip(Tail(s)) ELSE s

RECURSIVE RStrip(_)
RStrip(s) ==
    IF s # <<>> /\ s[Len(s)] = " " THEN RStrip(SubSeq(s, 1, Len(s) - 1)) ELSE s

Strip(s) == RStrip(LStrip(s))

\* _clean_label: trim, then drop one pair of surrounding quotes and trim
clean_label(label) ==
    IF label = NoLabel THEN NoLabel
    ELSE LET s == Strip(label)
         IN  IF Len(s) >= 2 /\ \/ s[1] = "\"" /\ s[Len(s)] = "\""
                               \/ s[1] = "'" /\ s[Len(s)] = "'"
             THEN Strip(SubSeq(s, 2, Len(s) - 1))
             ELSE s

\* the value _register_node offers to setdefault
LabelOrId(node_id, label) ==
    LET cleaned == IF label # NoLabel THEN clean_label(label) ELSE label
    IN  IF cleaned # NoLabel /\ cleaned # <<>>
        THEN cleaned
        ELSE <<IdName(node_id)>>

\* variant of SetDefault: plain assignment d[k] = v
SetAlways(d, k, v) == [j \in DOMAIN d \cup {k} |-> IF j = k THEN v ELSE d[j]]

\* dict.setdefault(k, v) on the label mapping
SetDefault(d, k, v) == IF k \in DOMAIN d THEN d ELSE (k :> v) @@ d

\* _register_node on the parser's nodes (keys, labels) and groups
register_node(st, node_id, label, group) ==
    [nodes  |-> IF node_id \in Range(st.nodes) THEN st.nodes
                ELSE Append(st.nodes, node_id),
     labels |-> SetDefault(st.labels, node_id, LabelOrId(node_id, label)),
     groups |-> IF group # 0 /\ node_id \notin DOMAIN st.groups
                THEN (node_id :> group) @@ st.groups
                ELSE st.groups]

ParserState == [nodes |-> nodes, labels |-> labels, groups |-> groups]

\* the for loop over the targets of "A --> B & C"
RECURSIVE RegisterTargets(_, _, _)
RegisterTargets(st, targets, group) ==
    IF targets = <<>> THEN st
    ELSE RegisterTargets(register_node(st, Head(targets), NoLabel, group),
                         Tail(targets), group)

\* A line of the text is given by the branch of the loop body it takes and by
\* what that branch's regular expression captures from it.
Lines ==
    {<<"ignored">>, <<"front">>, <<"end">>}
    \cup {<<"subgraph", g>> : g \in 0..NumGroups}
    \cup {<<"edge", e[1], NoLabel, e[2], NoLabel>> : e \in Ids \X Ids}
    \cup {<<"multi", e[1], NoLabel, <<e[2], e[3]>>>> : e \in Ids \X Ids \X Ids}
    \cup {<<"node", e[1], e[2]>> : e \in Ids \X RawLabels}

\* longest text, in lines
MaxLines == 2

Texts == UNION {[1..m -> Lines] : m \in 1..MaxLines}

\* VisioGenerator(layout_engine).generate(mermaid_text), at parser.parse()
InitGenerate ==
    /\ layout_engine \in {"flow", "hilbert"}
    /\ text \in Texts
    /\ line_no = 1
    /\ in_front_matter = FALSE
    /\ current_group = 0
    /\ nodes = <<>> /\ labels = <<>> /\ edges = <<>> /\ groups = <<>>
    /\ call = <<>>
    /\ document = FALSE /\ shapes = {}
    /\ pc = "parse"
    /\ Idle

AtLine == pc = "parse" /\ line_no <= Len(text)
Line == text[line_no]
NextLine == line_no' = line_no + 1
LayoutUntouched ==
    UNCHANGED <<layout_engine, pc, incoming, outgoing, roots, queue, visited,
                levels, positions, hn, hi, table, text, document, shapes>>

\* a line starting with ---: front matter begins or ends
ParseFrontMatter ==
    /\ AtLine
    /\ Line[1] = "front"
    /\ in_front_matter' = ~in_front_matter
    /\ NextLine
    /\ LayoutUntouched
    /\ UNCHANGED <<nodes, labels, edges, groups, current_group, call>>

\* a line inside the front matter, or one that no branch matches, or a
\* declaration, comment or style line
ParseIgnored ==
    /\ AtLine
    /\ Line[1] # "front"
    /\ in_front_matter \/ Line[1] = "ignored"
    /\ NextLine
    /\ LayoutUntouched
    /\ UNCHANGED <<nodes, labels, edges, groups, current_group, in_front_matter, call>>

\* subgraph NAME (or a subgraph line whose name does not match)
ParseSubgraph ==
    /\ AtLine
    /\ ~in_front_matter
    /\ Line[1] = "subgraph"
    /\ current_group' = Line[2]
    /\ NextLine
    /\ LayoutUntouched
    /\ UNCHANGED <<nodes, labels, edges, groups, in_front_matter, call>>

\* end
ParseEndSubgraph ==
    /\ AtLine
    /\ ~in_front_matter
    /\ Line[1] = "end"
    /\ current_group' = 0
    /\ NextLine
    /\ LayoutUntouched
    /\ UNCHANGED <<nodes, labels, edges, groups, in_front_matter, call>>

\* A -->|label| B and A --> B: register both ends, append the edge
ParseEdge ==
    /\ AtLine
    /\ ~in_front_matter
    /\ Line[1] = "edge"
    /\ LET st == register_node(
                    register_node(ParserState, Line[2], Line[3], current_group),
                    Line[4], Line[5], current_group)
       IN  /\ nodes' = st.nodes
           /\ labels' = st.labels
           /\ groups' = st.groups
    /\ edges' = Append(edges, <<Line[2], Line[4]>>)
    /\ call' = <<Line[4], Line[5], current_group>>
    /\ NextLine
    /\ LayoutUntouched
    /\ UNCHANGED <<current_group, in_front_matter>>

\* A --> B & C: register the source, then each target with its edge
ParseMulti ==
    /\ AtLine
    /\ ~in_front_matter
    /\ Line[1] = "multi"
    /\ LET st == RegisterTargets(
                    register_node(ParserState, Line[2], Line[3], current_group),
                    Line[4], current_group)
       IN  /\ nodes' = st.nodes
           /\ labels' = st.labels
           /\ groups' = st.groups
    /\ edges' = edges \o [i \in DOMAIN Line[4] |-> <<Line[2], Line[4][i]>>]
    /\ call' = <<Line[4][Len(Line[4])], NoLabel, current_group>>
    /\ NextLine
    /\ LayoutUntouched
    /\ UNCHANGED <<current_group, in_front_matter>>

\* A[Label] alone
ParseNode ==
    /\ AtLine
    /\ ~in_front_matter
    /\ Line[1] = "node"
    /\ LET st == register_node(ParserState, Line[2], Line[3], current_group)
       IN  /\ nodes' = st.nodes
           /\ labels' = st.labels
           /\ groups' = st.groups
    /\ call' = <<Line[2], Line[3], current_group>>
    /\ NextLine
    /\ LayoutUntouched
    /\ UNCHANGED <<edges, current_group, in_front_matter>>

\* variant of ParseOutcome: the check for an empty nodes mapping is left out
ParseOutcomeNoCheck(ns) == "return"

\* if not self.nodes: raise ValueError(...)
ParseOutcome(ns) == IF ns = <<>> THEN "ValueError" ELSE "return"

\* the loop is over and nothing was found: parse raises, generate with it
ParseRaise ==
    /\ pc = "parse"
    /\ line_no > Len(text)
    /\ ParseOutcome(nodes) = "ValueError"
    /\ pc' = "ValueError"
    /\ UNCHANGED <<layout_engine, nodes, edges, groups, incoming, outgoing,
                   roots, queue, visited, levels, positions, hn, hi, table>>
    /\ UNCHANGED parserVars

\* parse returns nodes and edges; generate builds the engine and calls layout
ParseReturn ==
    /\ pc = "parse"
    /\ line_no > Len(text)
    /\ ParseOutcome(nodes) = "return"
    /\ pc' = IF layout_engine = "flow" THEN "calculate_levels"
             ELSE "hilbert_layout"
    /\ positions' = <<>>
    /\ UNCHANGED <<layout_engine, nodes, edges, groups, incoming, outgoing,
                   roots, queue, visited, levels, hn, hi, table>>
    /\ UNCHANGED parserVars

\* self.create_document(), after layout returned the positions
CreateDocument ==
    /\ pc = "done"
    /\ document' = TRUE
    /\ pc' = "document"
    /\ UNCHANGED <<layout_engine, nodes, edges, groups, incoming, outgoing,
                   roots, queue, visited, levels, positions, hn, hi, table,
                   text, line_no, in_front_matter, current_group, labels,
                   call, shapes>>

\* self.create_shapes(nodes, positions): a shape per node that has a position
CreateShapes ==
    /\ pc = "document"
    /\ shapes' = {n \in Range(nodes) : n \in DOMAIN positions}
    /\ pc' = "returned"
    /\ UNCHANGED <<layout_engine, nodes, edges, groups, incoming, outgoing,
                   roots, queue, visited, levels, positions, hn, hi, table,
                   text, line_no, in_front_matter, current_group, labels,
                   call, document>>

NextGenerate ==
    \/ ParseFrontMatter
    \/ ParseIgnored
    \/ ParseSubgraph
    \/ ParseEndSubgraph
    \/ ParseEdge
    \/ ParseMulti
    \/ ParseNode
    \/ ParseRaise
    \/ ParseReturn
    \/ CalcLevelsStart
    \/ BfsSkip
    \/ BfsVisit
    \/ AssignUnvisited
    \/ FlowLayout
    \/ HilbertStart
    \/ HilbertPlace
    \/ HilbertReturn
    \/ CreateDocument
    \/ CreateShapes

SpecGenerate == InitGenerate /\ [][NextGenerate]_vars

\* MermaidParser(text) right after construction, then _register_node calls
InitRegister ==
    /\ layout_engine = "flow"
    /\ text = <<>> /\ line_no = 0 /\ in_front_matter = FALSE
    /\ current_group = 0
    /\ nodes = <<>> /\ labels = <<>> /\ edges = <<>> /\ groups = <<>>
    /\ call = <<>>
    /\ document = FALSE /\ shapes = {}
    /\ pc = "register"
    /\ Idle

\* self._register_node(node_id, label, current_group)
RegisterCall ==
    /\ pc = "register"
    /\ \E node_id \in Ids, label \in RawLabels \cup {NoLabel},
          group \in 0..NumGroups :
          /\ LET st == register_node(ParserState, node_id, label, group)
             IN  /\ nodes' = st.nodes
                 /\ labels' = st.labels
                 /\ groups' = st.groups
          /\ call' = <<node_id, label, group>>
    /\ UNCHANGED <<layout_engine, edges, pc, incoming, outgoing, roots, queue,
                   visited, levels, positions, hn, hi, table, text, line_no,
                   in_front_matter, current_group, document, shapes>>

NextRegister == RegisterCall

SpecRegister == InitRegister /\ [][NextRegister]_vars

(* ------------------------------ claims --------------------------------- *)
Declared == Range(nodes)
EdgeIds == {edges[i][1] : i \in DOMAIN edges} \cup {edges[i][2] : i \in DOMAIN edges}
Undeclared == EdgeIds \ Declared
FlowDone == layout_engine = "flow" /\ pc = "done"
HilbertDone == layout_engine = "hilbert" /\ pc = "done"
\* calculate_levels has returned
Levelled == layout_engine = "flow" /\ pc \in {"layout", "done"}
LevelOf(n) == DictGet(levels, n)
X(n) == positions[n][1]
Y(n) == positions[n][2]

\* the declared nodes no edge points to, read off the edge list
ZeroInDegreeSet == {n \in Declared : \A i \in DOMAIN edges : edges[i][2] # n}

\* S and the targets of the edges leaving S
Step(S) == S \cup {edges[i][2] : i \in {j \in DOMAIN edges : edges[j][1] \in S}}

RECURSIVE Reach(_)
Reach(S) == IF Step(S) = S THEN S ELSE Reach(Step(S))

\* length of a shortest directed path from S to v, for v in Reach(S)
RECURSIVE Dist(_, _, _)
Dist(v, S, k) == IF v \in S THEN k ELSE Dist(v, Step(S), k + 1)

\* C1: when every edge names declared nodes only, the mapping either layout
\* returns has exactly the declared node identifiers as its keys, n of them.
C1_Totality ==
    (pc = "done" /\ EdgeIds \subseteq Declared)
        => /\ DOMAIN positions = Declared
           /\ Cardinality(DOMAIN positions) = Len(nodes)

C1_Witness ==
    /\ FlowDone
    /\ Len(nodes) = 3
    /\ Len(edges) >= 2
    /\ EdgeIds \subseteq Declared
    /\ \E n \in Declared : n \notin visited

\* C2: when some declared node has in-degree zero, each such node has level
\* 0 and each node reachable from them has the length of a shortest path
\* from them as its level; the chain 1 -> 2 -> 3 gives levels 0, 1, 2.
C2_ShortestPathLevels ==
    (Levelled /\ ZeroInDegreeSet # {})
        => /\ \A r \in ZeroInDegreeSet : LevelOf(r) = 0
           /\ \A v \in Reach(ZeroInDegreeSet) :
                 /\ v \in DictKeys(levels)
                 /\ LevelOf(v) = Dist(v, ZeroInDegreeSet, 0)
           /\ (nodes = <<1, 2, 3>> /\ edges = <<<<1, 2>>, <<2, 3>>>>)
                 => (LevelOf(1) = 0 /\ LevelOf(2) = 1 /\ LevelOf(3) = 2)

\* a node with a short and a long path from the root, the long one met first
C2_Witness ==
    /\ Levelled
    /\ nodes = <<1, 2, 3>>
    /\ edges = <<<<1, 2>>, <<2, 3>>, <<1, 3>>>>
    /\ LevelOf(3) = 1

\* C3: when no declared node has in-degree zero, every declared node is a
\* root, and calculate_levels returns a level for every declared node, with
\* some node at level 0.
C3_AllRootsFallback ==
    (layout_engine = "flow" /\ pc \in {"bfs", "layout", "done"}
        /\ ZeroInDegreeSet = {})
        => /\ roots = nodes
           /\ Levelled => /\ Declared \subseteq DictKeys(levels)
                          /\ \E n \in Declared : LevelOf(n) = 0

\* the cycle 1 -> 2 -> 3 -> 1
C3_Witness ==
    /\ Levelled
    /\ nodes = <<1, 2, 3>>
    /\ edges = <<<<1, 2>>, <<2, 3>>, <<3, 1>>>>
    /\ \A n \in Declared : LevelOf(n) = 0

\* C4: calculate_levels returns exactly one level per declared node, a
\* natural number, and it is 0 for a declared node no root leads to.
C4_OneLevelEach ==
    Levelled
        => \A n \in Declared :
              /\ Cardinality({i \in DOMAIN levels : levels[i][1] = n}) = 1
              /\ LevelOf(n) \in Nat
              /\ n \notin Reach(Range(roots)) => LevelOf(n) = 0

\* a cycle no root leads into, and a root with a child at level 1
C4_Witness ==
    /\ Levelled
    /\ \E n \in Declared :
          /\ n \notin Reach(Range(roots))
          /\ \E i \in DOMAIN edges : edges[i][2] = n
    /\ \E n \in DictKeys(levels) : LevelOf(n) = 1

\* C5 as claimed: every identifier an edge names that is not declared gets a
\* level and a position from the flow layout.
C5_UndeclaredArePlaced ==
    FlowDone
        => \A u \in Undeclared : u \in DictKeys(levels) /\ u \in DOMAIN positions

\* C5 as amended: an undeclared identifier gets a level and a position
\* exactly when the traversal reaches it from a root; one that no root leads
\* to (one that is only ever the source of an edge, say) gets neither.
C5_UndeclaredPlacedIffReached ==
    FlowDone
        => \A u \in Undeclared :
              /\ u \in DictKeys(levels) <=> u \in Reach(Range(roots))
              /\ u \in DOMAIN positions <=> u \in Reach(Range(roots))

\* one undeclared identifier is placed, another is not
C5_Witness ==
    /\ FlowDone
    /\ \E u \in Undeclared : u \in DOMAIN positions
    /\ \E u \in Undeclared : u \notin DOMAIN positions

\* the nodes of level L
AtLevel(L) == {n \in DictKeys(levels) : LevelOf(n) = L}
Leftmost(S) == CHOOSE n \in S : \A m \in S : RLe(X(n), X(m))
Rightmost(S) == CHOOSE n \in S : \A m \in S : RLe(X(m), X(n))

\* C6: in a level of k nodes the x coordinates are exactly
\* MARGIN + i * (A4_WIDTH - 2 * MARGIN) / (k + 1) for i = 1..k, one node
\* each; for k >= 2 no two nodes share an x and the gap from the left margin
\* to the first node, between neighbours and from the last node to the right
\* margin are one and the same positive length.
C6_EvenSpacing ==
    FlowDone
        => \A L \in 0..MaxLevel(levels) :
              LET S == AtLevel(L)
                  k == Cardinality(S)
                  gap == RSub(X(Leftmost(S)), <<MARGIN, 1>>)
              IN  k >= 1 =>
                  /\ \A i \in 1..k :
                        Cardinality({n \in S :
                            REq(X(n), <<MARGIN * (k + 1)
                                          + i * (A4_WIDTH - 2 * MARGIN),
                                        k + 1>>)}) = 1
                  /\ k >= 2 =>
                        /\ RLt(<<0, 1>>, gap)
                        /\ \A n \in S, m \in S : n # m => ~REq(X(n), X(m))
                        /\ \A n \in S \ {Leftmost(S)} :
                              \E m \in S : REq(RSub(X(n), X(m)), gap)
                        /\ REq(RSub(<<A4_WIDTH - MARGIN, 1>>, X(Rightmost(S))),
                               gap)

\* a level of three nodes, two of them in a subgraph
C6_Witness ==
    /\ FlowDone
    /\ Cardinality(AtLevel(0)) = 3
    /\ Cardinality(DOMAIN groups) = 2

\* y is linear in the level: equal steps of usable_height / max_level
LinearInLevel ==
    \A a \in DOMAIN positions, b \in DOMAIN positions :
        REq(RSub(Y(a), Y(b)),
            <<(LevelOf(b) - LevelOf(a)) * (A4_HEIGHT - 2 * MARGIN),
              MaxLevel(levels)>>)

\* C7 as claimed: with a maximum level >= 1, y is linear in the level, level
\* 0 is at the bottom margin y = MARGIN, the deepest level at the top margin
\* y = A4_HEIGHT - MARGIN.
C7_LevelZeroAtBottom ==
    (FlowDone /\ MaxLevel(levels) >= 1)
        => /\ LinearInLevel
           /\ \A n \in DOMAIN positions :
                 /\ LevelOf(n) = 0 => REq(Y(n), <<MARGIN, 1>>)
                 /\ LevelOf(n) = MaxLevel(levels)
                       => REq(Y(n), <<A4_HEIGHT - MARGIN, 1>>)

\* C7 as amended: with a maximum level >= 1, y is linear in the level, level
\* 0 is at the top margin y = A4_HEIGHT - MARGIN, the deepest level at the
\* bottom margin y = MARGIN.
C7_LevelZeroAtTop ==
    (FlowDone /\ MaxLevel(levels) >= 1)
        => /\ LinearInLevel
           /\ \A n \in DOMAIN positions :
                 /\ LevelOf(n) = 0 => REq(Y(n), <<A4_HEIGHT - MARGIN, 1>>)
                 /\ LevelOf(n) = MaxLevel(levels) => REq(Y(n), <<MARGIN, 1>>)

C7_Witness ==
    /\ FlowDone
    /\ MaxLevel(levels) = 2
    /\ \A L \in 0..2 : AtLevel(L) # {}

\* C8: every position either layout has written lies within the margins:
\* MARGIN <= x <= A4_WIDTH - MARGIN and MARGIN <= y <= A4_HEIGHT - MARGIN.
C8_WithinMargins ==
    \A n \in DOMAIN positions :
        /\ RLe(<<MARGIN, 1>>, X(n)) /\ RLe(X(n), <<A4_WIDTH - MARGIN, 1>>)
        /\ RLe(<<MARGIN, 1>>, Y(n)) /\ RLe(Y(n), <<A4_HEIGHT - MARGIN, 1>>)

\* a Hilbert layout that filled a 4 x 4 grid
C8_Witness ==
    /\ HilbertDone
    /\ hn = 4
    /\ Cardinality(DOMAIN positions) = 16

Grid(n) == (0..(n - 1)) \X (0..(n - 1))

\* C9: for a power-of-two side hn, the cells of the distances 0, 1, ... lie
\* in the hn x hn grid and are pairwise different, so the distances
\* 0..hn*hn-1 cover the grid, each cell once; count = 4 fills the 2 x 2 grid.
C9_D2xyBijection ==
    pc = "d2xy"
        => /\ Range(table) \subseteq Grid(hn)
           /\ Cardinality(Range(table)) = Len(table)
           /\ Len(table) = hn * hn => Range(table) = Grid(hn)

C9_Witness ==
    /\ pc = "d2xy"
    /\ hn = 2
    /\ Len(table) = 4

\* C10: the grid side of the Hilbert layout is the least power of two whose
\* square is at least the node count, so every node index is a distance
\* below hn * hn, and no two nodes get the same position.
C10_GridSideFits ==
    (layout_engine = "hilbert" /\ pc \in {"place", "done"})
        => /\ \E k \in 0..Len(nodes) : hn = Pow(2, k)
           /\ hn * hn >= Len(nodes)
           /\ hn > 1 => (hn \div 2) * (hn \div 2) < Len(nodes)
           /\ \A i \in 0..(Len(nodes) - 1) : i < hn * hn
           /\ \A a \in DOMAIN positions, b \in DOMAIN positions :
                 a # b => ~(REq(X(a), X(b)) /\ REq(Y(a), Y(b)))

\* five nodes: the 2 x 2 grid is too small, the 4 x 4 grid is chosen
C10_Witness ==
    /\ HilbertDone
    /\ Len(nodes) = 5
    /\ hn = 4
    /\ Cardinality(DOMAIN positions) = 5

\* no layout engine has been invoked
NoLayoutYet ==
    /\ incoming = <<>> /\ outgoing = <<>> /\ roots = <<>> /\ queue = <<>>
    /\ visited = {} /\ levels = <<>> /\ positions = <<>> /\ hn = 0 /\ hi = 0

\* C11: in generate, a parse that found no node ends in ValueError with no
\* layout engine invoked and no document or shape created; whenever a layout
\* engine runs, or a document exists, there is at least one node.
C11_EmptyParseRaisesFirst ==
    /\ pc = "ValueError"
          => nodes = <<>> /\ NoLayoutYet /\ ~document /\ shapes = {}
    /\ (pc = "parse" /\ line_no > Len(text) /\ nodes = <<>>)
          => NoLayoutYet /\ ~document /\ shapes = {}
    /\ (pc \notin {"parse", "ValueError"} \/ ~NoLayoutYet \/ document
           \/ shapes # {})
          => Len(nodes) >= 1

\* an edge line swallowed by the front matter: the text names nodes, the
\* parse finds none
C11_Witness ==
    /\ pc = "ValueError"
    /\ \E i \in DOMAIN text : text[i][1] = "edge"
    /\ in_front_matter

\* C12: when the maximum level is 0 every node has y = A4_HEIGHT / 2; a level
\* holding one node has it at x = A4_WIDTH / 2; one node and no edge is
\* placed at the centre of the canvas.
C12_Centering ==
    FlowDone
        => /\ MaxLevel(levels) = 0
                 => \A n \in DOMAIN positions : REq(Y(n), <<A4_HEIGHT, 2>>)
           /\ \A L \in 0..MaxLevel(levels) :
                 \A n \in AtLevel(L) :
                    AtLevel(L) = {n} => REq(X(n), <<A4_WIDTH, 2>>)
           /\ (nodes = <<1>> /\ edges = <<>>)
                 => /\ DOMAIN positions = {1}
                    /\ REq(X(1), <<A4_WIDTH, 2>>)
                    /\ REq(Y(1), <<A4_HEIGHT, 2>>)

\* one node, no edge
C12_Witness ==
    /\ FlowDone
    /\ nodes = <<1>>
    /\ edges = <<>>
    /\ 2 * X(1)[1] = A4_WIDTH * X(1)[2]

\* C13: in every step, a node that has a level keeps that level; and a step
\* that pops a node which already has a level expands nothing: it only
\* removes the item from the queue.  So a node's children are enqueued in
\* one step at most, the one that gives the node its level.
C13_LevelsAreFinal ==
    [][ /\ \A n \in DictKeys(levels) :
              /\ n \in DictKeys(levels')
              /\ DictGet(levels', n) = DictGet(levels, n)
        /\ (pc = "bfs" /\ queue # <<>> /\ Head(queue)[1] \in DictKeys(levels))
              => (queue' = Tail(queue) /\ levels' = levels)
        /\ (pc = "bfs" /\ queue # <<>> /\ queue' # Tail(queue))
              => /\ Head(queue)[1] \notin DictKeys(levels)
                 /\ levels' = Append(levels, Head(queue)) ]_vars

\* a node with children is popped a second time, at another level
C13_Witness ==
    /\ pc = "bfs"
    /\ queue # <<>>
    /\ Head(queue)[1] \in visited
    /\ Head(queue)[2] # LevelOf(Head(queue)[1])
    /\ outgoing[Head(queue)[1]] # <<>>

Abs(i) == IF i < 0 THEN -i ELSE i

\* C14: for a power-of-two side hn, the cells of two consecutive distances
\* differ by exactly 1 in exactly one coordinate.
C14_ConsecutiveCellsAdjacent ==
    pc = "d2xy"
        => \A i \in 1..(Len(table) - 1) :
              Abs(table[i + 1][1] - table[i][1])
                 + Abs(table[i + 1][2] - table[i][2]) = 1

\* the whole 8 x 8 grid has been walked
C14_Witness ==
    /\ pc = "d2xy"
    /\ hn = 8
    /\ Len(table) = 64

\* the place of a node among the keys of levels: the order in which the
\* nodes were given their level
LevelIdx(n) == CHOOSE i \in DOMAIN levels : levels[i][1] = n
NodeIdx(n) == CHOOSE i \in DOMAIN nodes : nodes[i] = n
Key(n) == GroupKey(groups, n)

\* C15: within a level, the nodes of one group key (no group counting as a
\* key) lie at consecutive x slots, and nodes of the same key are ordered
\* left to right as they were given their level; the nodes were given their
\* level in visit order first, then the never-visited ones in the order of
\* the nodes mapping.
C15_OrderWithinLevel ==
    FlowDone
        => /\ \A L \in 0..MaxLevel(levels) :
                 \A a \in AtLevel(L), b \in AtLevel(L) :
                    /\ (Key(a) = Key(b) /\ LevelIdx(a) < LevelIdx(b))
                          => RLt(X(a), X(b))
                    /\ \A c \in AtLevel(L) :
                          (Key(a) = Key(c) /\ RLt(X(a), X(b)) /\ RLt(X(b), X(c)))
                             => Key(b) = Key(a)
           /\ \A a \in DictKeys(levels), b \in DictKeys(levels) \ visited :
                 /\ a \in visited => LevelIdx(a) < LevelIdx(b)
                 /\ (a \notin visited /\ NodeIdx(a) < NodeIdx(b))
                       => LevelIdx(a) < LevelIdx(b)

\* three nodes in one level; the first and the last of them share a subgraph
\* and are moved to the right of the second, in their order
C15_Witness ==
    /\ FlowDone
    /\ AtLevel(0) = {1, 2, 3}
    /\ DOMAIN groups = {1, 3}
    /\ RLt(X(2), X(1))
    /\ RLt(X(1), X(3))

\* the edge list with e inserted after its first k edges
InsertAt(es, k, e) == SubSeq(es, 1, k) \o <<e>> \o SubSeq(es, k + 1, Len(es))

\* two level mappings give the same nodes the same levels
SameLevels(lv1, lv2) ==
    /\ DictKeys(lv1) = DictKeys(lv2)
    /\ \A n \in DictKeys(lv1) : DictGet(lv1, n) = DictGet(lv2, n)

\* calculate_levels has just returned to layout
Returned == layout_engine = "flow" /\ pc = "layout"

\* the steps of the traversal compute what calculate_levels returns
CalculateLevelsAgrees == Levelled => levels = calculate_levels(nodes, edges)

\* C16 as claimed: with a self-edge (v, v) added anywhere in the edge list,
\* for any declared node v, calculate_levels returns the same levels.
C16_SelfEdgeChangesNothing ==
    Returned
        => \A v \in Declared : \A k \in 0..Len(edges) :
              SameLevels(calculate_levels(nodes, InsertAt(edges, k, <<v, v>>)),
                         levels)

\* C16 as amended: a self-edge (v, v) added anywhere in the edge list leaves
\* every level as it was unless v is a declared node of in-degree zero (the
\* self-edge then takes v out of the roots).
C16_SelfEdgeOffRootChangesNothing ==
    Returned
        => \A v \in Ids \ ZeroInDegreeSet : \A k \in 0..Len(edges) :
              SameLevels(calculate_levels(nodes, InsertAt(edges, k, <<v, v>>)),
                         levels)

\* a node at level 1 with a child: a self-edge on it is met by the traversal
C16_Witness ==
    /\ Returned
    /\ \E v \in Declared \ ZeroInDegreeSet :
          /\ LevelOf(v) = 1
          /\ outgoing[v] # <<>>
          /\ SameLevels(calculate_levels(nodes, InsertAt(edges, 0, <<v, v>>)),
                        levels)

\* what _clean_label returns for each bracket content of RawLabels
Cleaned(label) ==
    CASE label = <<" ">> -> <<>>
      [] label = <<"x">> -> <<"x">>
      [] label = <<"\"", " ", "y", "\"">> -> <<"y">>
      [] label = <<"'", "x", "'", " ">> -> <<"x">>

\* the label a first registration with these arguments fixes
FirstLabel(node_id, label) ==
    IF label = NoLabel \/ Cleaned(label) = <<>>
    THEN <<IdName(node_id)>>
    ELSE Cleaned(label)

\* C17: a _register_node call leaves the label of every node registered
\* before as it was, and its group if it had one; a node it registers for the
\* first time gets the cleaned label of that call when that is not empty and
\* its own identifier otherwise.
C17_FirstRegistrationWins ==
    [][ pc = "register"
          => /\ \A n \in DOMAIN labels :
                   n \in DOMAIN labels' /\ labels'[n] = labels[n]
             /\ \A n \in DOMAIN groups :
                   n \in DOMAIN groups' /\ groups'[n] = groups[n]
             /\ \A n \in DOMAIN labels' \ DOMAIN labels :
                   /\ n = call'[1]
                   /\ labels'[n] = FirstLabel(n, call'[2])
             /\ DOMAIN labels' = Range(nodes') ]_vars

\* a node registered with a quoted label was registered again with another
\* label and a subgraph: it kept the label and got the group
C17_Witness ==
    /\ pc = "register"
    /\ call # <<>>
    /\ call[2] = <<"x">>
    /\ call[3] # 0
    /\ labels[call[1]] = <<"y">>
    /\ call[1] \in DOMAIN groups
====
